---- MODULE Spec2Model ----
\* A model of currency_converter.py: the exchange-rate service with its cache
\* and fallback chain, the conversion history with its trend analysis, and the
\* menu loop that drives them.
EXTENDS Integers, Sequences, FiniteSets, TLC

VARIABLES
    now,            \* datetime.now(), in seconds
    cache_file,     \* rates_cache.json
    libs_available, \* FOREX_AVAILABLE and CONVERTER_AVAILABLE, set at import
    rates_cache,    \* ExchangeRateService.rates_cache
    history_file,   \* conversion_history.json
    history,        \* ConversionHistory.history
    pc,             \* where CurrencyConverter.run stands
    rate_out,       \* what the last call into ExchangeRateService did
    hist_out,       \* what the last call into ConversionHistory did
    ui_out,         \* what the last menu operation did
    calls           \* how many operations the session has gone through

vars == <<now, cache_file, libs_available, rates_cache, history_file, history,
          pc, rate_out, hist_out, ui_out, calls>>

\* ---------------------------------------------------------------------------
\* Python float (IEEE-754 binary64) arithmetic.  TLC integers are 32 bits wide,
\* so a 53-bit mantissa is kept as limbs of 26 bits, least significant first:
\* <<a0, a1, a2, a3, a4>> stands for a0 + a1*W + a2*W^2 + a3*W^3 + a4*W^4.
\* ---------------------------------------------------------------------------
W == 2^26

H == 2^13

BigZero == <<0, 0, 0, 0, 0>>

BigOne == <<1, 0, 0, 0, 0>>

Limb(n, i) == IF i \in 1..5 THEN n[i] ELSE 0

\* the element of a one-element set: in The({ e : x \in {v} }) the value v is
\* computed once, however often e uses x
The(S) == CHOOSE r \in S : TRUE

\* the carry into limb i of a + b: a limb sum of W or more sends one out and
\* limb sums of W - 1 hand it on
AddCarry(a, b, i) ==
    IF \E j \in 1..(i - 1) :
           a[j] + b[j] >= W /\ \A l \in (j + 1)..(i - 1) : a[l] + b[l] = W - 1
    THEN 1 ELSE 0

AddLimb(a, b, i) == (a[i] + b[i] + AddCarry(a, b, i)) % W

BigAdd(a, b) ==
    <<AddLimb(a, b, 1), AddLimb(a, b, 2), AddLimb(a, b, 3), AddLimb(a, b, 4),
      a[5] + b[5] + AddCarry(a, b, 5)>>

\* the borrow from limb i of a - b: a limb of a below that of b takes one and
\* equal limbs hand it on
SubBorrow(a, b, i) ==
    IF \E j \in 1..(i - 1) : a[j] < b[j] /\ \A l \in (j + 1)..(i - 1) : a[l] = b[l]
    THEN 1 ELSE 0

SubLimb(a, b, i) == (a[i] - b[i] - SubBorrow(a, b, i) + W) % W

\* a - b for a >= b
BigSub(a, b) ==
    <<SubLimb(a, b, 1), SubLimb(a, b, 2), SubLimb(a, b, 3), SubLimb(a, b, 4),
      a[5] - b[5] - SubBorrow(a, b, 5)>>

BigGe(a, b) ==
    IF a[5] # b[5] THEN a[5] > b[5]
    ELSE IF a[4] # b[4] THEN a[4] > b[4]
    ELSE IF a[3] # b[3] THEN a[3] > b[3]
    ELSE IF a[2] # b[2] THEN a[2] > b[2]
    ELSE a[1] >= b[1]

\* n * 2^k
BigShl(n, k) ==
    LET q == k \div 26
        r == k % 26
        limb(i) == (Limb(n, i - q) % (2^(26 - r))) * (2^r)
                   + (Limb(n, i - q - 1) \div (2^(26 - r)))
    IN  <<limb(1), limb(2), limb(3), limb(4), limb(5)>>

\* n * 2^13
BigShl13(n) ==
    <<(n[1] % H) * H, (n[2] % H) * H + (n[1] \div H), (n[3] % H) * H + (n[2] \div H),
      (n[4] % H) * H + (n[3] \div H), (n[5] % H) * H + (n[4] \div H)>>

\* floor(n / 2^k)
BigShr(n, k) ==
    LET q == k \div 26
        r == k % 26
        limb(i) == (Limb(n, i + q) \div (2^r)) + (Limb(n, i + q + 1) % (2^r)) * (2^(26 - r))
    IN  <<limb(1), limb(2), limb(3), limb(4), limb(5)>>

BigBit(n, i) == (Limb(n, (i \div 26) + 1) \div (2^(i % 26))) % 2

\* some bit of n below bit j is set
BigLowBits(n, j) ==
    \E i \in 1..5 :
        IF j >= 26 * i THEN n[i] # 0
        ELSE IF j > 26 * (i - 1) THEN n[i] % (2^(j - 26 * (i - 1))) # 0
        ELSE FALSE

\* the number of bits of a limb
IntBitLen(v) == CHOOSE n \in 0..26 : v < 2^n /\ (n = 0 \/ v >= 2^(n - 1))

BigBitLen(n) ==
    IF n[5] # 0 THEN 104 + IntBitLen(n[5])
    ELSE IF n[4] # 0 THEN 78 + IntBitLen(n[4])
    ELSE IF n[3] # 0 THEN 52 + IntBitLen(n[3])
    ELSE IF n[2] # 0 THEN 26 + IntBitLen(n[2])
    ELSE IntBitLen(n[1])

\* the ten 13-bit digits of n, least significant first
Digits(n) ==
    <<n[1] % H, n[1] \div H, n[2] % H, n[2] \div H, n[3] % H, n[3] \div H,
      n[4] % H, n[4] \div H, n[5] % H, n[5] \div H>>

Digit(d, j) == IF j \in 1..10 THEN d[j] ELSE 0

\* the k-th column of the product of da, whose first five digits count, and db
Column(da, db, k) ==
    da[1] * Digit(db, k) + da[2] * Digit(db, k - 1) + da[3] * Digit(db, k - 2)
    + da[4] * Digit(db, k - 3) + da[5] * Digit(db, k - 4)

Columns(da, db) ==
    <<Column(da, db, 1), Column(da, db, 2), Column(da, db, 3), Column(da, db, 4),
      Column(da, db, 5), Column(da, db, 6), Column(da, db, 7), Column(da, db, 8),
      Column(da, db, 9), Column(da, db, 10)>>

\* every column keeps its low 13 bits and takes what the column below it holds
\* above them
Carried(c) ==
    <<c[1] % H, (c[2] % H) + (c[1] \div H), (c[3] % H) + (c[2] \div H), (c[4] % H) + (c[3] \div H),
      (c[5] % H) + (c[4] \div H), (c[6] % H) + (c[5] \div H), (c[7] % H) + (c[6] \div H),
      (c[8] % H) + (c[7] \div H), (c[9] % H) + (c[8] \div H), (c[10] % H) + (c[9] \div H)>>

\* for columns below 2 * H - 1: the carry into column k, which a column of H
\* or more sends out and columns of H - 1 hand on
CarryInto(c, k) ==
    IF \E j \in 1..(k - 1) : c[j] >= H /\ \A i \in (j + 1)..(k - 1) : c[i] = H - 1
    THEN 1 ELSE 0

DigitOf(c, k) == (c[k] + CarryInto(c, k)) % H

\* the number whose columns are c
FromColumns(c) ==
    <<DigitOf(c, 1) + DigitOf(c, 2) * H, DigitOf(c, 3) + DigitOf(c, 4) * H,
      DigitOf(c, 5) + DigitOf(c, 6) * H, DigitOf(c, 7) + DigitOf(c, 8) * H,
      DigitOf(c, 9) + DigitOf(c, 10) * H>>

\* a * b for a < 2^65 and a * b < 2^130, by columns of 13-bit digits: the
\* columns are below 5 * 2^26, after one carrying below 2^16, after two
\* below H + 8
BigMul(a, b) ==
    The({ FromColumns(c2) :
          c2 \in { Carried(c1) :
                   c1 \in { Carried(c0) :
                            c0 \in { Columns(da, db) :
                                     da \in {Digits(a)}, db \in {Digits(b)} } } } })

\* a * d for a < 2^65 and d < 2^26
BigMulSmall(a, d) == BigMul(a, <<d, 0, 0, 0, 0>>)

\* the correction of an estimated quotient digit: how often b still goes into
\* the remainder (at most twice), and what is left
BigDivFix(rem, b) ==
    IF ~BigGe(rem, b) THEN [n |-> 0, r |-> rem]
    ELSE The({ IF BigGe(r1, b) THEN [n |-> 2, r |-> BigSub(r1, b)] ELSE [n |-> 1, r |-> r1] :
               r1 \in {BigSub(rem, b)} })

\* one step of long division in base 2^13: for st.r < b * 2^13 < 2^66 the next
\* quotient digit is estimated from the leading bits (never too large, at
\* most 2 too small) and then corrected
BigDivStep(st, b) ==
    LET est == ((st.r[2] \div H) + st.r[3] * H) \div ((b[2] \div H) + b[3] * H + 1)
    IN  The({ [q |-> BigAdd(BigShl13(st.q), <<est + fix.n, 0, 0, 0, 0>>),
               r |-> BigShl13(fix.r)] :
              fix \in { BigDivFix(rem, b) :
                        rem \in { BigSub(st.r, prod) : prod \in {BigMulSmall(b, est)} } } })

\* floor(a * 2^65 / b) and whether the division left a remainder, for a and b
\* in [2^52, 2^53): a first digit of 0 or 1 and five steps
BigDiv(a, b) ==
    The({ [q |-> s5.q, inexact |-> s5.r # BigZero] :
          s5 \in { BigDivStep(s4, b) :
            s4 \in { BigDivStep(s3, b) :
              s3 \in { BigDivStep(s2, b) :
                s2 \in { BigDivStep(s1, b) :
                  s1 \in { BigDivStep(s0, b) :
                    s0 \in {IF BigGe(a, b)
                            THEN [q |-> BigOne, r |-> BigShl13(BigSub(a, b))]
                            ELSE [q |-> BigZero, r |-> BigShl13(a)]} } } } } } })

FZero == [k |-> "fin", s |-> 1, m |-> BigZero, e |-> 0]

FNaN == [k |-> "nan", s |-> 1, m |-> BigZero, e |-> 0]

FInf(s) == [k |-> "inf", s |-> s, m |-> BigZero, e |-> 0]

\* the double s * m * 2^e
Finite(s, m, e) == [k |-> "fin", s |-> s, m |-> m, e |-> e]

\* the double s * (2^52 + hi * 2^26 + lo) * 2^e
Fin(s, hi, lo, e) == Finite(s, <<lo, hi, 1, 0, 0>>, e)

IsZero(x) == x.k = "fin" /\ x.m = BigZero

\* a mantissa that rounding up carried to 2^53 is halved
RoundUp(s, up, e) ==
    IF up[3] >= 2 THEN Finite(s, BigShr(up, 1), e + 1) ELSE Finite(s, up, e)

\* n is cut to the 53 bits m above its bit k; the bit below them and the bits
\* below that one decide whether m is rounded up, a tie going to the even m
RoundTo(s, n, e, stk, k, m) ==
    IF k > 0 /\ BigBit(n, k - 1) = 1
       /\ (stk \/ (k > 1 /\ BigLowBits(n, k - 1)) \/ m[1] % 2 = 1)
    THEN The({ RoundUp(s, up, e + k) : up \in {BigAdd(m, BigOne)} })
    ELSE Finite(s, m, e + k)

\* round-to-nearest-even of s * (n + fraction) * 2^e to a 53-bit mantissa;
\* stk says whether a nonzero fraction lies below n
RoundNearestEven(s, n, e, stk) ==
    LET k == BigBitLen(n) - 53
    IN  IF n = BigZero THEN FZero
        ELSE The({ RoundTo(s, n, e, stk, k, m) :
                   m \in {IF k > 0 THEN BigShr(n, k) ELSE BigShl(n, -k)} })

\* x * y
FMul(x, y) ==
    IF x.k = "nan" \/ y.k = "nan" THEN FNaN
    ELSE IF x.k = "inf" \/ y.k = "inf"
         THEN IF IsZero(x) \/ IsZero(y) THEN FNaN ELSE FInf(x.s * y.s)
    ELSE IF IsZero(x) \/ IsZero(y) THEN FZero
    ELSE The({ RoundNearestEven(x.s * y.s, n, x.e + y.e, FALSE) : n \in {BigMul(x.m, y.m)} })

\* x / y for finite x and finite nonzero y
FDiv(x, y) ==
    IF IsZero(x) THEN FZero
    ELSE The({ RoundNearestEven(x.s * y.s, d.q, x.e - y.e - 65, d.inexact) :
               d \in {BigDiv(x.m, y.m)} })

\* |x| >= |y| for finite x, y
MagGe(x, y) ==
    IF IsZero(y) THEN TRUE
    ELSE IF IsZero(x) THEN FALSE
    ELSE IF x.e # y.e THEN x.e > y.e
    ELSE BigGe(x.m, y.m)

FNeg(x) == [x EXCEPT !.s = IF IsZero(x) THEN 1 ELSE -x.s]

\* big + small for finite |big| >= |small|
FAddOrdered(big, small) ==
    IF IsZero(small) \/ big.e - small.e > 55 THEN big
    ELSE The({ RoundNearestEven(big.s, n, small.e, FALSE) :
               n \in { IF big.s = small.s THEN BigAdd(sh, small.m) ELSE BigSub(sh, small.m) :
                       sh \in {BigShl(big.m, big.e - small.e)} } })

\* x + y for finite x and y
FAdd(x, y) == IF MagGe(x, y) THEN FAddOrdered(x, y) ELSE FAddOrdered(y, x)

\* x - y for finite x and y
FSub(x, y) == The({ FAdd(x, minus_y) : minus_y \in {FNeg(y)} })

\* x > y for finite x and y
FGt(x, y) ==
    IF x.s # y.s THEN x.s > y.s
    ELSE IF x.s = 1 THEN ~MagGe(y, x)
    ELSE ~MagGe(x, y)

\* floor(n / 2^k), or the next whole number when the bits of n below bit k
\* are more than a half or are a half and the floor is odd; for a result
\* below 2^26
RoundHalfEven(n, k) ==
    The({ IF k > 0 /\ BigBit(n, k - 1) = 1
             /\ ((k > 1 /\ BigLowBits(n, k - 1)) \/ u % 2 = 1)
          THEN u + 1
          ELSE u :
          u \in {IF k > 0 THEN BigShr(n, k)[1] ELSE BigShl(n, -k)[1]} })

\* round(x, 2) for finite |x| < 2^26 / 100, as a whole number of hundredths:
\* the exact value of |x| * 100 rounded half-to-even, with the sign of x
PyRound2(x) ==
    IF IsZero(x) THEN 0
    ELSE The({ x.s * RoundHalfEven(n, -x.e) : n \in {BigMulSmall(x.m, 100)} })

\* ---------------------------------------------------------------------------
\* Config
\* ---------------------------------------------------------------------------
SUPPORTED_CURRENCIES ==
    {"USD", "EUR", "GBP", "JPY", "OMR", "AUD", "CAD", "CHF", "CNY", "INR",
     "AED", "SAR", "KWD", "BHD", "QAR", "NOK", "SEK", "DKK", "PLN", "CZK"}

CACHE_DURATION == 300

MAX_HISTORY_ENTRIES == 100

\* ---------------------------------------------------------------------------
\* Values read from JSON or returned by a library: a float, or something that
\* is not a number
\* ---------------------------------------------------------------------------
NonNumeric == [k |-> "str", s |-> 1, m |-> BigZero, e |-> 0]

IsNumber(v) == v.k \in {"fin", "inf", "nan"}

FOne == Fin(1, 0, 0, -52)

\* a / b with the operands taken the wrong way round
py_div_swapped(a, b) ==
    IF ~IsNumber(a) \/ ~IsNumber(b) THEN [exc |-> "TypeError", value |-> FZero]
    ELSE IF IsZero(a) THEN [exc |-> "ZeroDivisionError", value |-> FZero]
    ELSE [exc |-> "none", value |-> FDiv(b, a)]

\* Python's a / b on such values
py_div(a, b) ==
    IF ~IsNumber(a) \/ ~IsNumber(b) THEN [exc |-> "TypeError", value |-> FZero]
    ELSE IF IsZero(b) THEN [exc |-> "ZeroDivisionError", value |-> FZero]
    ELSE [exc |-> "none", value |-> FDiv(a, b)]

\* ---------------------------------------------------------------------------
\* ExchangeRateService
\* ---------------------------------------------------------------------------
fallback_rates ==
       ("USD" :> Fin(1, 0, 0, -52))                  \* 1.0
    @@ ("EUR" :> Fin(1, 47244640, 17179869, -53))    \* 0.8520
    @@ ("GBP" :> Fin(1, 31071404, 2147484, -53))     \* 0.7315
    @@ ("JPY" :> Fin(1, 48496640, 0, -46))           \* 110.25
    @@ ("OMR" :> Fin(1, 36104568, 55834575, -54))    \* 0.3845
    @@ ("AUD" :> Fin(1, 23622320, 8589935, -52))     \* 1.3520
    @@ ("CAD" :> Fin(1, 16609443, 56371446, -52))    \* 1.2475
    @@ ("CHF" :> Fin(1, 56170119, 11274289, -53))    \* 0.9185
    @@ ("CNY" :> Fin(1, 41137733, 42412802, -50))    \* 6.4520
    @@ ("INR" :> Fin(1, 10643046, 26843546, -46))    \* 74.15
    @@ ("AED" :> Fin(1, 56119787, 34896609, -51))    \* 3.6725
    @@ ("SAR" :> Fin(1, 58720256, 0, -51))           \* 3.7500
    @@ ("KWD" :> Fin(1, 13824425, 66035122, -54))    \* 0.3015
    @@ ("BHD" :> Fin(1, 34091302, 61203284, -54))    \* 0.3770
    @@ ("QAR" :> Fin(1, 55029268, 32212255, -51))    \* 3.6400
    @@ ("NOK" :> Fin(1, 4362076, 10737418, -49))     \* 8.5200
    @@ ("SEK" :> Fin(1, 6291456, 0, -49))            \* 8.7500
    @@ ("DKK" :> Fin(1, 39258685, 29527900, -50))    \* 6.3400
    @@ ("PLN" :> Fin(1, 66437775, 24159191, -51))    \* 3.9800
    @@ ("CZK" :> Fin(1, 23068672, 0, -48))           \* 21.5000

\* the three endpoints, in the order they are tried
api_endpoints == <<"exchangerate-api.com", "fixer.io", "open.er-api.com">>

NoRates == [c \in {} |-> FZero]

\* a dict as json.load gives it: has_ts says whether 'timestamp' is there and
\* parses ("ok"), is there and does not parse ("bad"), or is missing ("none")
EmptyDict == [has_ts |-> "none", ts |-> 0, has_rates |-> FALSE, rates |-> NoRates]

CacheDict(rates, t) == [has_ts |-> "ok", ts |-> t, has_rates |-> TRUE, rates |-> rates]

\* the cache file: "missing", "corrupt" (not JSON), or a JSON dict
NoFile == [kind |-> "missing", d |-> EmptyDict]

CorruptFile == [kind |-> "corrupt", d |-> EmptyDict]

DictFile(d) == [kind |-> "dict", d |-> d]

load_cache(file, t) ==
    IF file.kind = "missing" THEN EmptyDict
    ELSE IF file.kind = "corrupt" THEN EmptyDict
    ELSE IF file.d.has_ts = "none" THEN EmptyDict
    ELSE IF file.d.has_ts = "bad" THEN EmptyDict
    ELSE IF t - file.d.ts < CACHE_DURATION THEN file.d
    ELSE EmptyDict

\* write_ok is whether open() and json.dump() go through
save_cache(file, rates, t, write_ok) ==
    IF write_ok THEN DictFile(CacheDict(rates, t)) ELSE file

\* resps[i] is what endpoint i answers when it is asked
RECURSIVE fetch_rates_from_api_at(_, _)
fetch_rates_from_api_at(resps, i) ==
    IF i > Len(api_endpoints)
    THEN [found |-> FALSE, rates |-> NoRates, contacts |-> Len(api_endpoints)]
    ELSE IF resps[i].kind = "rates"
         THEN [found |-> TRUE, rates |-> resps[i].rates, contacts |-> i]
    ELSE fetch_rates_from_api_at(resps, i + 1)

fetch_rates_from_api(resps) == fetch_rates_from_api_at(resps, 1)

get_all_rates(base_currency, cache, file, resps, t, write_ok) ==
    IF cache.has_rates /\ base_currency = "USD"
    THEN [rates |-> cache.rates, source |-> "cache", contacts |-> 0,
          saved |-> FALSE, file |-> file]
    ELSE The({ IF f.found /\ f.rates # NoRates
               THEN The({ [rates |-> filtered_rates, source |-> "api", contacts |-> f.contacts,
                           saved |-> write_ok,
                           file |-> save_cache(file, filtered_rates, t, write_ok)] :
                          filtered_rates \in
                              {[c \in DOMAIN f.rates \cap SUPPORTED_CURRENCIES |-> f.rates[c]]} })
               ELSE [rates |-> fallback_rates, source |-> "fallback_rates",
                     contacts |-> f.contacts, saved |-> FALSE, file |-> file] :
               f \in {fetch_rates_from_api(resps)} })

get_fallback_rate(from_currency, to_currency) ==
    IF from_currency \in DOMAIN fallback_rates /\ to_currency \in DOMAIN fallback_rates
    THEN The({ IF q.exc = "ZeroDivisionError" THEN [exc |-> "none", value |-> FOne] ELSE q :
               q \in {py_div(fallback_rates[to_currency], fallback_rates[from_currency])} })
    ELSE [exc |-> "none", value |-> FOne]

\* a library call: lib.kind is "raises", "falsy" (None or 0 comes back) or
\* "rate" (lib.rate comes back)
LibYields(lib) == lib.kind = "rate" /\ FGt(lib.rate, FZero)

get_exchange_rate(from_currency, to_currency, cache, file, avail, resps, libs, t, write_ok) ==
    IF from_currency = to_currency
    THEN [exc |-> "none", value |-> FOne, source |-> "same", table |-> "none",
          contacts |-> 0, libs_tried |-> <<>>, saved |-> FALSE, file |-> file]
    ELSE The({
        LET all_rates == all.rates
            done(q, src, tried) ==
                The({ [exc |-> r.exc, value |-> r.value, source |-> src,
                       table |-> all.source, contacts |-> all.contacts,
                       libs_tried |-> tried, saved |-> all.saved, file |-> all.file] :
                      r \in {q} })
            plain(v) == [exc |-> "none", value |-> v]
        IN  IF from_currency = "USD" /\ to_currency \in DOMAIN all_rates
            THEN done(plain(all_rates[to_currency]), all.source, <<>>)
            ELSE IF to_currency = "USD" /\ from_currency \in DOMAIN all_rates
                 THEN done(py_div(FOne, all_rates[from_currency]), all.source, <<>>)
            ELSE IF from_currency \in DOMAIN all_rates /\ to_currency \in DOMAIN all_rates
                 THEN done(py_div(all_rates[to_currency], all_rates[from_currency]),
                           all.source, <<>>)
            ELSE IF avail.forex /\ LibYields(libs.forex)
                 THEN done(plain(libs.forex.rate), "forex", <<"forex">>)
            ELSE LET tried1 == IF avail.forex THEN <<"forex">> ELSE <<>>
                     tried2 == IF avail.converter THEN Append(tried1, "converter")
                               ELSE tried1
                 IN  IF avail.converter /\ LibYields(libs.converter)
                     THEN done(plain(libs.converter.rate), "converter", tried2)
                     ELSE done(get_fallback_rate(from_currency, to_currency),
                               "get_fallback_rate", tried2) :
        all \in {get_all_rates("USD", cache, file, resps, t, write_ok)} })

\* ---------------------------------------------------------------------------
\* DataManager
\* ---------------------------------------------------------------------------
\* a JSON file: "missing", "corrupt" (not JSON), "dict" (JSON, not a list) or
\* "list" with the list in data
JsonFile(kind, data) == [kind |-> kind, data |-> data]

load_json_file(file) == IF file.kind = "list" THEN file.data ELSE <<>>

\* write_ok is whether open() and json.dump() go through
save_json_file(file, data, write_ok) ==
    [ok |-> write_ok, file |-> IF write_ok THEN JsonFile("list", data) ELSE file]

\* ---------------------------------------------------------------------------
\* ConversionHistory
\* ---------------------------------------------------------------------------
\* a timestamp that datetime.fromisoformat does not take
BadTime == -1

SecondsPerDay == 86400

\* a slice that keeps the front of the list instead: seq[:-start]
py_slice_front(seq, start) ==
    SubSeq(seq, 1, IF -start < Len(seq) THEN -start ELSE Len(seq))

\* seq[start:] as Python slices it
py_slice_from(seq, start) ==
    LET n    == Len(seq)
        from == IF start < 0 THEN (IF start + n < 0 THEN 0 ELSE start + n)
                ELSE IF start > n THEN n ELSE start
    IN  SubSeq(seq, from + 1, n)

\* conversion_data is the dict the caller hands over, t is datetime.now()
add_conversion(hist, file, conversion_data, t, write_ok) ==
    LET stamped == [kind |-> "dict", amount |-> conversion_data.amount,
                    from_currency |-> conversion_data.from_currency,
                    to_currency |-> conversion_data.to_currency,
                    exchange_rate |-> conversion_data.exchange_rate,
                    converted_amount |-> conversion_data.converted_amount,
                    timestamp |-> t]
    IN  The({ [history |-> kept, file |-> save_json_file(file, kept, write_ok).file] :
              kept \in { IF Len(appended) > MAX_HISTORY_ENTRIES
                         THEN py_slice_from(appended, -MAX_HISTORY_ENTRIES)
                         ELSE appended :
                         appended \in {Append(hist, stamped)} } })

get_recent_history(hist, limit) ==
    IF hist # <<>> THEN py_slice_from(hist, -limit) ELSE <<>>

clear_history(file, write_ok) ==
    LET saved == save_json_file(file, <<>>, write_ok)
    IN  [history |-> <<>>, file |-> saved.file, ok |-> saved.ok]

\* the records whose timestamp parses and is not before the cutoff, in order
recent_conversions(hist, cutoff_date) ==
    LET in_window(conversion) ==
            conversion.kind = "dict" /\ conversion.timestamp # BadTime
            /\ conversion.timestamp >= cutoff_date
    IN  SelectSeq(hist, in_window)

\* the pairs in the order they first occur
pairs_in_order(convs) ==
    LET pair(i) == <<convs[i].from_currency, convs[i].to_currency>>
        nth(firsts, k) == CHOOSE i \in firsts : Cardinality({ j \in firsts : j < i }) = k - 1
    IN  The({ [k \in 1..Cardinality(firsts) |-> pair(nth(firsts, k))] :
              firsts \in {{ i \in 1..Len(convs) : \A j \in 1..(i - 1) : pair(j) # pair(i) }} })

\* currency_rates[pair], in the order of the history
rates_of(convs, pair) ==
    LET nth(idx, k) == CHOOSE i \in idx : Cardinality({ j \in idx : j < i }) = k - 1
    IN  The({ [k \in 1..Cardinality(idx) |->
                  The({ [rate |-> convs[i].exchange_rate, time |-> convs[i].timestamp] :
                        i \in {nth(idx, k)} })] :
              idx \in {{ i \in 1..Len(convs) :
                           <<convs[i].from_currency, convs[i].to_currency>> = pair }} })

\* list.sort(key=time): stable, so the k-th of the result is the entry with
\* k - 1 entries before it in (time, position) order
sort_by_time(rates) ==
    LET before(i, j) == rates[i].time < rates[j].time
                        \/ (rates[i].time = rates[j].time /\ i < j)
        at(k) == CHOOSE j \in 1..Len(rates) :
                    Cardinality({ i \in 1..Len(rates) : before(i, j) }) = k - 1
    IN  [k \in 1..Len(rates) |-> rates[at(k)]]

F100 == Fin(1, 37748736, 0, -46)

\* the direction decided on the rounded percentage instead
trend_direction_rounded(change_percent) ==
    IF PyRound2(change_percent) > 100 THEN "rising"
    ELSE IF PyRound2(change_percent) < -100 THEN "falling"
    ELSE "stable"

\* the direction of a percentage of change
trend_direction(change_percent) ==
    IF FGt(change_percent, FOne) THEN "rising"
    ELSE IF FGt(FNeg(FOne), change_percent) THEN "falling"
    ELSE "stable"

\* ((newest_rate - oldest_rate) / oldest_rate) * 100 for numbers and a nonzero
\* oldest_rate
percent_change(oldest_rate, newest_rate) ==
    The({ FMul(quotient, F100) :
          quotient \in { FDiv(difference, oldest_rate) :
                         difference \in {FSub(newest_rate, oldest_rate)} } })

\* the summary of one pair: exc is the exception the arithmetic raises, if any
trend_of(rates) ==
    The({
        LET oldest_rate == sorted[1].rate
            newest_rate == sorted[Len(sorted)].rate
            raises(exc) ==
                [exc |-> exc, change_percent |-> 0, direction |-> "none",
                 oldest_rate |-> oldest_rate, newest_rate |-> newest_rate,
                 data_points |-> Len(rates)]
        IN  IF ~IsNumber(oldest_rate) \/ ~IsNumber(newest_rate) THEN raises("TypeError")
            ELSE IF IsZero(oldest_rate) THEN raises("ZeroDivisionError")
            ELSE The({ [exc |-> "none", change_percent |-> PyRound2(change_percent),
                        direction |-> trend_direction(change_percent),
                        oldest_rate |-> oldest_rate, newest_rate |-> newest_rate,
                        data_points |-> Len(rates)] :
                       change_percent \in
                           {percent_change(oldest_rate, newest_rate)} }) :
        sorted \in {sort_by_time(rates)} })

\* the pairs are worked through in order; the first exception ends the call
RECURSIVE trends_from(_, _, _)
trends_from(convs, pairs, trends) ==
    IF pairs = <<>> THEN [exc |-> "none", trends |-> trends]
    ELSE The({ IF Len(rates) >= 2
               THEN The({ IF t.exc # "none" THEN [exc |-> t.exc, trends |-> <<>>]
                          ELSE The({ trends_from(convs, Tail(pairs), found) :
                                     found \in {Append(trends, [pair |-> Head(pairs),
                                                                 trend |-> t])} }) :
                          t \in {trend_of(rates)} })
               ELSE trends_from(convs, Tail(pairs), trends) :
               rates \in {rates_of(convs, Head(pairs))} })

\* the result lists the pairs of the returned dict with their summaries, in
\* the dict's order
get_currency_trends(hist, days, t) ==
    IF hist = <<>> THEN [exc |-> "none", trends |-> <<>>]
    ELSE The({ IF Len(recent) < 2 THEN [exc |-> "none", trends |-> <<>>]
               ELSE The({ trends_from(recent, pairs, <<>>) :
                          pairs \in {pairs_in_order(recent)} }) :
               recent \in {recent_conversions(hist, t - days * SecondsPerDay)} })

\* ---------------------------------------------------------------------------
\* What the outside world can hold: rate tables, endpoint answers, library
\* answers, the cache file a session finds
\* ---------------------------------------------------------------------------
StartTime == 700000

MaxElapsed == 301

TickSteps == {299, 301}

\* a table as an endpoint sends it, with a code the system does not support
LiveRates ==
       ("USD" :> Fin(1, 0, 0, -52))                  \* 1.0
    @@ ("EUR" :> Fin(1, 53687091, 13421773, -53))    \* 0.9
    @@ ("GBP" :> Fin(1, 33554432, 0, -53))           \* 0.75
    @@ ("XYZ" :> Fin(1, 0, 0, -51))                  \* 2.0

ZeroRates == [LiveRates EXCEPT !["EUR"] = FZero]

TextRates == [LiveRates EXCEPT !["EUR"] = NonNumeric]

PartialRates == [c \in {"USD", "EUR"} |-> LiveRates[c]]

Supported(rates) == [c \in DOMAIN rates \cap SUPPORTED_CURRENCIES |-> rates[c]]

Failed(kind) == [kind |-> kind, rates |-> NoRates]

Answer(rates) == [kind |-> "rates", rates |-> rates]

\* "error": the request raises; "status": not 200; "nokey": no 'rates' in it
EndpointScenarios ==
    { <<Failed("error"), Failed("status"), Failed("nokey")>>,
      <<Answer(LiveRates), Failed("error"), Failed("error")>>,
      <<Failed("error"), Answer(ZeroRates), Failed("error")>>,
      <<Failed("status"), Failed("nokey"), Answer(TextRates)>>,
      <<Answer(PartialRates), Answer(LiveRates), Failed("error")>>,
      <<Answer(NoRates), Answer(LiveRates), Failed("error")>> }

LibAnswer(kind) == [kind |-> kind, rate |-> FZero]

LibRate == [kind |-> "rate", rate |-> Fin(1, 60397977, 40265318, -53)]    \* 0.95

LibScenarios ==
    { [forex |-> LibRate, converter |-> LibAnswer("raises")],
      [forex |-> LibAnswer("raises"), converter |-> LibRate],
      [forex |-> LibAnswer("falsy"), converter |-> LibAnswer("raises")] }

LibConfigs ==
    { [forex |-> FALSE, converter |-> FALSE],
      [forex |-> TRUE, converter |-> TRUE] }

CacheAges == {1, 299, 300}

CacheFiles(t) ==
    {NoFile, CorruptFile,
     DictFile([has_ts |-> "none", ts |-> 0, has_rates |-> TRUE, rates |-> Supported(LiveRates)]),
     DictFile([has_ts |-> "bad", ts |-> 0, has_rates |-> TRUE, rates |-> Supported(LiveRates)]),
     DictFile(CacheDict(Supported(ZeroRates), t - 1)),
     DictFile(CacheDict(PartialRates, t - 1))}
    \cup { DictFile(CacheDict(Supported(LiveRates), t - a)) : a \in CacheAges }

RatePairs ==
    { <<"USD", "EUR">>, <<"EUR", "USD">>, <<"EUR", "GBP">>, <<"EUR", "EUR">> }

NoRateCall ==
    [op |-> "none", from |-> "", to |-> "", exc |-> "none", value |-> FZero,
     source |-> "none", table |-> "none", contacts |-> 0, libs_tried |-> <<>>,
     saved |-> FALSE, at |-> 0]

NoHistCall ==
    [op |-> "none", limit |-> 0, result |-> <<>>, ok |-> TRUE, exc |-> "none",
     trends |-> <<>>]

\* ---------------------------------------------------------------------------
\* CurrencyConverter: what input() yields and what the menu operations do
\* ---------------------------------------------------------------------------
\* input() returns a line, or raises EOFError or KeyboardInterrupt
Line(text) == [kind |-> "line", text |-> text]

EOFError == [kind |-> "EOFError", text |-> ""]

KeyboardInterrupt == [kind |-> "KeyboardInterrupt", text |-> ""]

NoRead == [kind |-> "none", text |-> ""]

\* str.strip().upper() on the lines typed at a currency prompt
strip_upper ==
    ("USD" :> "USD") @@ ("eur" :> "EUR") @@ (" gbp " :> "GBP") @@ ("" :> "")
    @@ ("   " :> "") @@ ("xyz" :> "XYZ")

\* str.strip().lower() on the lines typed at the "Clear history?" prompt
strip_lower == ("y" :> "y") @@ (" Y " :> "y") @@ ("" :> "") @@ ("n" :> "n")

\* str.strip() on the lines typed at the menu prompt
strip == ("1" :> "1") @@ (" 2" :> "2") @@ ("3" :> "3") @@ ("4 " :> "4") @@ ("5" :> "5")
         @@ ("6" :> "6") @@ ("7" :> "7") @@ ("" :> "")

\* float(str.strip()) on the lines typed at the amount prompt
py_float ==
    ("100" :> [exc |-> "none", value |-> F100])
    @@ (" 2.5 " :> [exc |-> "none", value |-> Fin(1, 16777216, 0, -51)])
    @@ ("0" :> [exc |-> "none", value |-> FZero])
    @@ ("-5" :> [exc |-> "none", value |-> Fin(-1, 16777216, 0, -50)])
    @@ ("nan" :> [exc |-> "none", value |-> FNaN])
    @@ ("abc" :> [exc |-> "ValueError", value |-> FZero])
    @@ ("" :> [exc |-> "ValueError", value |-> FZero])

\* amount <= 0, which is False for nan
py_le_zero(x) == x.k # "nan" /\ (IsZero(x) \/ x.s = -1)

\* None, as get_currency_input returns it
None == ""

get_currency_input(text) ==
    LET currency == strip_upper[text]
    IN  IF currency = "" THEN None
        ELSE IF currency \notin SUPPORTED_CURRENCIES THEN None
        ELSE currency

\* what convert_currency does with the three lines it may read; the reads it
\* does not get to are reported as NoRead
convert_currency(from_in, to_in, amount_in, hist, hfile, cache, cfile, avail, resps, libs, t, cache_ok, hist_ok) ==
    LET left(outcome, r1, r2, r3) ==
            [outcome |-> outcome, from_in |-> r1, to_in |-> r2, amount_in |-> r3,
             lookup |-> FALSE, history |-> hist, history_file |-> hfile,
             cache_file |-> cfile]
        ended(read) == IF read.kind = "KeyboardInterrupt" THEN "interrupt" ELSE "failed"
    IN  IF from_in.kind # "line" THEN left(ended(from_in), from_in, NoRead, NoRead)
        ELSE IF get_currency_input(from_in.text) = None
        THEN left("aborted", from_in, NoRead, NoRead)
        ELSE IF to_in.kind # "line" THEN left(ended(to_in), from_in, to_in, NoRead)
        ELSE IF get_currency_input(to_in.text) = None
        THEN left("aborted", from_in, to_in, NoRead)
        ELSE IF amount_in.kind # "line" THEN left(ended(amount_in), from_in, to_in, amount_in)
        ELSE IF py_float[amount_in.text].exc # "none" \/ py_le_zero(py_float[amount_in.text].value)
        THEN left("aborted", from_in, to_in, amount_in)
        ELSE LET from_currency == get_currency_input(from_in.text)
                 to_currency   == get_currency_input(to_in.text)
                 amount        == py_float[amount_in.text].value
             IN  The({
                 IF r.exc # "none"
                 THEN [outcome |-> "failed", from_in |-> from_in, to_in |-> to_in,
                       amount_in |-> amount_in, lookup |-> TRUE, history |-> hist,
                       history_file |-> hfile, cache_file |-> r.file]
                 ELSE The({ [outcome |-> "converted", from_in |-> from_in, to_in |-> to_in,
                             amount_in |-> amount_in, lookup |-> TRUE,
                             history |-> a.history, history_file |-> a.file,
                             cache_file |-> r.file] :
                            a \in { add_conversion(hist, hfile, conversion_data, t, hist_ok) :
                                    conversion_data \in
                                        {[amount |-> amount, from_currency |-> from_currency,
                                          to_currency |-> to_currency,
                                          exchange_rate |-> r.value,
                                          converted_amount |-> FMul(amount, r.value)]} } }) :
                 r \in {get_exchange_rate(from_currency, to_currency, cache, cfile, avail,
                                          resps, libs, t, cache_ok)} })

\* the rates are printed with a float format, which a rate that is no number
\* does not take
show_current_rates(cache, cfile, resps, t, write_ok) ==
    The({ [outcome |-> IF \E c \in DOMAIN r.rates \ {"USD"} : ~IsNumber(r.rates[c])
                       THEN "failed" ELSE "done",
           cache_file |-> r.file] :
          r \in {get_all_rates("USD", cache, cfile, resps, t, write_ok)} })

\* the last 20 records are printed, which an entry that is no dict or holds no
\* numbers does not take; then the clearing is offered
show_conversion_history(hist, hfile, clear_in, write_ok) ==
    LET same(outcome) == [outcome |-> outcome, history |-> hist, history_file |-> hfile]
    IN  The({
        IF shown = <<>> THEN same("done")
        ELSE IF \E i \in 1..Len(shown) :
                    \/ shown[i].kind # "dict"
                    \/ ~IsNumber(shown[i].amount)
                    \/ ~IsNumber(shown[i].converted_amount)
                    \/ ~IsNumber(shown[i].exchange_rate)
        THEN same("raised")
        ELSE IF clear_in.kind = "KeyboardInterrupt" THEN same("interrupt")
        ELSE IF clear_in.kind = "EOFError" THEN same("raised")
        ELSE IF strip_lower[clear_in.text] = "y"
        THEN The({ [outcome |-> "done", history |-> c.history, history_file |-> c.file] :
                   c \in {clear_history(hfile, write_ok)} })
        ELSE same("done") :
        shown \in {get_recent_history(hist, 20)} })

show_currency_trends(hist, t) ==
    [outcome |-> IF get_currency_trends(hist, 7, t).exc # "none" THEN "failed" ELSE "done"]

NoUi ==
    [op |-> "none", from_in |-> NoRead, to_in |-> NoRead, amount_in |-> NoRead,
     outcome |-> "none", lookup |-> FALSE, reason |-> "none"]

\* ---------------------------------------------------------------------------
\* A session of ExchangeRateService
\* ---------------------------------------------------------------------------
ServiceInit ==
    /\ now = StartTime
    /\ cache_file \in CacheFiles(StartTime)
    /\ libs_available \in LibConfigs
    /\ rates_cache = load_cache(cache_file, now)
    /\ rate_out = NoRateCall
    /\ history_file = <<>>
    /\ history = <<>>
    /\ pc = "service"
    /\ hist_out = NoHistCall
    /\ ui_out = NoUi
    /\ calls = 0

Tick ==
    \E d \in TickSteps :
        /\ now + d <= StartTime + MaxElapsed
        /\ now' = now + d
        /\ UNCHANGED <<cache_file, libs_available, rates_cache, history_file, history,
                       pc, rate_out, hist_out, ui_out, calls>>

\* the answers a call can get from the outside world: where the call does not
\* ask, one answer stands for all
AnswersIf(asked, answers) == IF asked THEN answers ELSE {CHOOSE a \in answers : TRUE}

\* a cached table for the base USD is returned without a request
Fetches(base) == ~(rates_cache.has_rates /\ base = "USD")

GetAllRates ==
    \E base \in {"USD", "EUR"} :
      \E resps \in AnswersIf(Fetches(base), EndpointScenarios),
         write_ok \in AnswersIf(Fetches(base), BOOLEAN) :
        \E r \in {get_all_rates(base, rates_cache, cache_file, resps, now, write_ok)} :
            /\ cache_file' = r.file
            /\ rate_out' = [op |-> "get_all_rates", from |-> base, to |-> "",
                            exc |-> "none", value |-> FZero, source |-> r.source,
                            table |-> r.source, contacts |-> r.contacts,
                            libs_tried |-> <<>>, saved |-> r.saved, at |-> now]
            /\ UNCHANGED <<now, libs_available, rates_cache, history_file, history, pc,
                           hist_out, ui_out, calls>>

\* one call of get_exchange_rate, its arguments and the answers of the outside
\* world drawn from the given sets
ExchangeRateCall(pairs, scenarios, lib_scenarios) ==
    \E p \in pairs :
      \E resps \in AnswersIf(p[1] # p[2] /\ Fetches("USD"), scenarios),
         write_ok \in AnswersIf(p[1] # p[2] /\ Fetches("USD"), BOOLEAN),
         libs \in AnswersIf(p[1] # p[2] /\ (libs_available.forex \/ libs_available.converter),
                            lib_scenarios) :
        \E r \in {get_exchange_rate(p[1], p[2], rates_cache, cache_file, libs_available,
                                    resps, libs, now, write_ok)} :
            /\ cache_file' = r.file
            /\ rate_out' = [op |-> "get_exchange_rate", from |-> p[1], to |-> p[2],
                            exc |-> r.exc, value |-> r.value, source |-> r.source,
                            table |-> r.table, contacts |-> r.contacts,
                            libs_tried |-> r.libs_tried, saved |-> r.saved, at |-> now]
            /\ UNCHANGED <<now, libs_available, rates_cache, history_file, history, pc,
                           hist_out, ui_out, calls>>

GetExchangeRate == ExchangeRateCall(RatePairs, EndpointScenarios, LibScenarios)

ServiceNext == Tick \/ GetAllRates \/ GetExchangeRate

SpecService == ServiceInit /\ [][ServiceNext]_vars

\* ---------------------------------------------------------------------------
\* A session without a usable cache in which no endpoint answers, over every
\* pair of supported currencies
\* ---------------------------------------------------------------------------
FailingScenarios ==
    { <<Failed("error"), Failed("error"), Failed("error")>>,
      <<Failed("error"), Failed("status"), Failed("nokey")>> }

FailingLibs ==
    { [forex |-> LibAnswer("falsy"), converter |-> LibAnswer("raises")],
      [forex |-> LibAnswer("raises"), converter |-> LibAnswer("falsy")] }

OfflineInit ==
    /\ now = StartTime
    /\ cache_file \in {NoFile, CorruptFile,
                       DictFile(CacheDict(Supported(LiveRates), StartTime - CACHE_DURATION))}
    /\ libs_available \in LibConfigs
    /\ rates_cache = load_cache(cache_file, now)
    /\ rate_out = NoRateCall
    /\ history_file = <<>>
    /\ history = <<>>
    /\ pc = "service"
    /\ hist_out = NoHistCall
    /\ ui_out = NoUi
    /\ calls = 0

\* the first lookup of the session
OfflineGetExchangeRate ==
    /\ rate_out.op = "none"
    /\ ExchangeRateCall(SUPPORTED_CURRENCIES \X SUPPORTED_CURRENCIES, FailingScenarios,
                        FailingLibs)

OfflineNext == OfflineGetExchangeRate

SpecOffline == OfflineInit /\ [][OfflineNext]_vars

\* ---------------------------------------------------------------------------
\* Properties of ExchangeRateService
\* ---------------------------------------------------------------------------
IsRateCall == rate_out.op = "get_exchange_rate"

\* no valid cache was loaded and every endpoint failed when the call was made
WasOffline ==
    /\ ~rates_cache.has_rates
    /\ rate_out.table = "fallback_rates"
    /\ rate_out.contacts = Len(api_endpoints)

\* C1: get_exchange_rate never raises; whatever the cache holds and whatever
\* the endpoints answer, the call returns a number.
C1_NeverRaises ==
    IsRateCall => rate_out.exc = "none" /\ IsNumber(rate_out.value)

\* what get_exchange_rate gives for the opposite direction in the same
\* offline session
OfflineReverse ==
    get_exchange_rate(rate_out.to, rate_out.from, rates_cache, cache_file,
                      libs_available, <<Failed("error"), Failed("error"), Failed("error")>>,
                      [forex |-> LibAnswer("falsy"), converter |-> LibAnswer("falsy")],
                      now, TRUE).value

FOneBelow == Fin(1, 67108863, 67108863, -53)     \* 1 - 2^-53

FOneAbove == Fin(1, 0, 1, -52)                   \* 1 + 2^-52

\* the product of the rate with the rate of the opposite direction
RoundTrip == The({ FMul(rate_out.value, back) : back \in {OfflineReverse} })

OfflineCall == IsRateCall /\ (rate_out.source = "same" \/ WasOffline)

OfflineQuotient ==
    rate_out.exc = "none"
    /\ rate_out.value = FDiv(fallback_rates[rate_out.to], fallback_rates[rate_out.from])
    /\ (rate_out.from = rate_out.to => rate_out.value = FOne)

C3_CacheOnlyWhileFresh ==
    rate_out.table = "cache" => rate_out.at - rates_cache.ts < CACHE_DURATION

\* C9: with no valid cache and every endpoint failing, the available libraries
\* are tried before the static table gives the result.
C9_LibrariesBeforeStatic ==
    (IsRateCall /\ WasOffline /\ (libs_available.forex \/ libs_available.converter))
        => rate_out.libs_tried # <<>>

\* C10: once a fetch has succeeded and the cache is written, a later lookup in
\* the same session within 300 s is answered from the cache, with no endpoint
\* contacted.
C10_ReadThrough ==
    [][ ( /\ rate_out.table = "api" /\ rate_out.saved
          /\ rate_out' # rate_out
          /\ rate_out'.source # "same"
          /\ ~(rate_out'.op = "get_all_rates" /\ rate_out'.from # "USD")
          /\ now' - rate_out.at < CACHE_DURATION )
        => (rate_out'.table = "cache" /\ rate_out'.contacts = 0) ]_vars

\* ---------------------------------------------------------------------------
\* A session of ConversionHistory
\* ---------------------------------------------------------------------------
MaxCalls == 2

Conversion(from, to, rate, t) ==
    [kind |-> "dict", amount |-> F100, from_currency |-> from, to_currency |-> to,
     exchange_rate |-> rate, converted_amount |-> FMul(F100, rate), timestamp |-> t]

\* an entry of the history file that is not a dict
NotADict ==
    [kind |-> "other", amount |-> FZero, from_currency |-> "", to_currency |-> "",
     exchange_rate |-> FZero, converted_amount |-> FZero, timestamp |-> BadTime]

\* n conversions of eight days ago, one second apart
StoredHistory(n) ==
    [i \in 1..n |-> Conversion("USD", "EUR", fallback_rates["EUR"],
                               StartTime - 8 * SecondsPerDay + i)]

FileSizes == {1, 3, MAX_HISTORY_ENTRIES - 1, MAX_HISTORY_ENTRIES, MAX_HISTORY_ENTRIES + 1}

F1_005 == Fin(1, 335544, 21474836, -52)

F1_01 == Fin(1, 671088, 42949673, -52)

F1_02 == Fin(1, 1342177, 18790482, -52)

F0_99 == Fin(1, 65766686, 48318382, -53)

F0_85 == Fin(1, 46976204, 53687091, -53)

F0_80 == Fin(1, 40265318, 26843546, -53)

F0_9 == Fin(1, 53687091, 13421773, -53)

TrendRates == {FOne, F1_005, F1_01, F1_02, F0_99, F0_85, F0_80, FZero, NonNumeric}

\* histories of the last minutes: two conversions of one pair; the same after
\* conversions of another pair; three of one pair stored out of time order;
\* one in the window and one before it; one with a timestamp that does not
\* parse and an entry that is not a dict
TrendHistories ==
    { <<Conversion("USD", "EUR", o, StartTime - 120),
        Conversion("USD", "EUR", n, StartTime - 60)>> : o \in TrendRates, n \in TrendRates }
    \cup
    { <<Conversion("EUR", "GBP", o, StartTime - 200),
        Conversion("USD", "EUR", FOne, StartTime - 120),
        Conversion("EUR", "GBP", FOne, StartTime - 100),
        Conversion("USD", "EUR", n, StartTime - 60)>> : o \in {FOne, FZero}, n \in TrendRates }
    \cup
    { <<Conversion("USD", "EUR", FOne, StartTime - 60),
        Conversion("USD", "EUR", F1_02, StartTime - 120),
        Conversion("USD", "EUR", F0_99, StartTime - 90)>>,
      <<Conversion("USD", "EUR", FOne, StartTime - 8 * SecondsPerDay),
        Conversion("USD", "EUR", F1_02, StartTime - 60)>>,
      <<Conversion("USD", "EUR", FOne, BadTime), NotADict,
        Conversion("USD", "EUR", F1_02, StartTime - 60),
        Conversion("USD", "EUR", F1_01, StartTime - 30)>> }

HistoryFiles ==
    { JsonFile("missing", <<>>), JsonFile("corrupt", <<>>), JsonFile("dict", <<>>),
      JsonFile("list", <<>>) }
    \cup { JsonFile("list", StoredHistory(n)) : n \in FileSizes }
    \cup { JsonFile("list", h) : h \in TrendHistories }

\* what a caller hands to add_conversion
NewConversions ==
    { Conversion("USD", "EUR", fallback_rates["EUR"], BadTime),
      Conversion("USD", "EUR", F0_9, BadTime) }

Limits == {0, 1, 2, 10, 20, MAX_HISTORY_ENTRIES, MAX_HISTORY_ENTRIES + 50}

HistoryInit ==
    /\ now = StartTime
    /\ history_file \in HistoryFiles
    /\ history = load_json_file(history_file)
    /\ hist_out = NoHistCall
    /\ calls = 0
    /\ cache_file = NoFile
    /\ libs_available = [forex |-> FALSE, converter |-> FALSE]
    /\ rates_cache = EmptyDict
    /\ rate_out = NoRateCall
    /\ pc = "history"
    /\ ui_out = NoUi

HistoryTick ==
    \E d \in TickSteps :
        /\ now + d <= StartTime + MaxElapsed
        /\ now' = now + d
        /\ UNCHANGED <<cache_file, libs_available, rates_cache, history_file, history,
                       pc, rate_out, hist_out, ui_out, calls>>

AddConversion ==
    /\ calls < MaxCalls
    /\ \E conversion_data \in NewConversions, write_ok \in BOOLEAN :
        \E r \in {add_conversion(history, history_file, conversion_data, now, write_ok)} :
            /\ calls' = calls + 1
            /\ history' = r.history
            /\ history_file' = r.file
            /\ hist_out' = [NoHistCall EXCEPT !.op = "add_conversion"]
            /\ UNCHANGED <<now, cache_file, libs_available, rates_cache, pc, rate_out,
                           ui_out>>

ClearHistory ==
    /\ calls < MaxCalls
    /\ \E write_ok \in BOOLEAN :
        \E r \in {clear_history(history_file, write_ok)} :
            /\ calls' = calls + 1
            /\ history' = r.history
            /\ history_file' = r.file
            /\ hist_out' = [NoHistCall EXCEPT !.op = "clear_history", !.ok = r.ok]
            /\ UNCHANGED <<now, cache_file, libs_available, rates_cache, pc, rate_out,
                           ui_out>>

GetRecentHistory ==
    \E limit \in Limits :
        /\ calls < MaxCalls
        /\ calls' = calls + 1
        /\ hist_out' = [NoHistCall EXCEPT !.op = "get_recent_history", !.limit = limit,
                                          !.result = get_recent_history(history, limit)]
        /\ UNCHANGED <<now, cache_file, libs_available, rates_cache, history_file,
                       history, pc, rate_out, ui_out>>

GetCurrencyTrends ==
    /\ calls < MaxCalls
    /\ \E days \in {7} :
        \E r \in {get_currency_trends(history, days, now)} :
            /\ calls' = calls + 1
            /\ hist_out' = [NoHistCall EXCEPT !.op = "get_currency_trends",
                                              !.exc = r.exc, !.trends = r.trends]
            /\ UNCHANGED <<now, cache_file, libs_available, rates_cache, history_file,
                           history, pc, rate_out, ui_out>>

HistoryNext ==
    HistoryTick \/ AddConversion \/ ClearHistory \/ GetRecentHistory \/ GetCurrencyTrends

SpecHistory == HistoryInit /\ [][HistoryNext]_vars

\* ---------------------------------------------------------------------------
\* Properties of ConversionHistory
\* ---------------------------------------------------------------------------
\* C4: the in-memory history log never holds more than 100 records, from the
\* loading of the history file on.
C4_HistoryCapped == Len(history) <= MAX_HISTORY_ENTRIES

Min(a, b) == IF a < b THEN a ELSE b

\* C5: get_recent_history(n) returns exactly the last min(n, len) records, in
\* insertion order, for every n >= 0; none for n = 0.
C5_RecentIsLastN ==
    hist_out.op = "get_recent_history" =>
        hist_out.result = SubSeq(history, Len(history) - Min(hist_out.limit, Len(history)) + 1,
                                 Len(history))

Reported(i) == hist_out.trends[i].trend.change_percent

Direction(i) == hist_out.trends[i].trend.direction

\* C6 as stated: the direction is rising iff the reported (rounded)
\* change_percent is > 1, falling iff it is < -1, stable otherwise.
C6_Original ==
    \A i \in 1..Len(hist_out.trends) :
        /\ Direction(i) = "rising" <=> Reported(i) > 100
        /\ Direction(i) = "falling" <=> Reported(i) < -100
        /\ Direction(i) = "stable" <=> (Reported(i) >= -100 /\ Reported(i) <= 100)

\* the percentage as computed from the two rates a summary carries
Unrounded(i) ==
    percent_change(hist_out.trends[i].trend.oldest_rate,
                   hist_out.trends[i].trend.newest_rate)

\* C6 as amended: the direction is decided on the unrounded percentage; the
\* reported value is that percentage rounded to 2 decimals, so a reported value
\* above 1 goes with rising, below -1 with falling, strictly between with
\* stable, and a reported 1.00 or -1.00 with either.
C6_Direction ==
    \A i \in 1..Len(hist_out.trends) :
        /\ Direction(i) \in {"rising", "falling", "stable"}
        /\ Direction(i) = "rising" <=> FGt(Unrounded(i), FOne)
        /\ Direction(i) = "falling" <=> FGt(FNeg(FOne), Unrounded(i))
        /\ Reported(i) = PyRound2(Unrounded(i))
        /\ Reported(i) > 100 => Direction(i) = "rising"
        /\ Reported(i) < -100 => Direction(i) = "falling"
        /\ (Reported(i) > -100 /\ Reported(i) < 100) => Direction(i) = "stable"
        /\ Direction(i) = "rising" => Reported(i) >= 100
        /\ Direction(i) = "falling" => Reported(i) <= -100

\* C6 witness: a summary that is rising while it reports exactly 1.00
C6_Witness ==
    \E i \in 1..Len(hist_out.trends) : Direction(i) = "rising" /\ Reported(i) = 100

\* the records of the log that get_currency_trends(7) looks at
InWindow == recent_conversions(history, now - 7 * SecondsPerDay)

\* the rates of a pair in the window, oldest first
WindowRates(pair) == sort_by_time(rates_of(InWindow, pair))

\* the pairs with at least two records in the window
TrendPairs ==
    { pair \in { <<InWindow[i].from_currency, InWindow[i].to_currency>> :
                    i \in 1..Len(InWindow) } :
        Len(rates_of(InWindow, pair)) >= 2 }

ZeroOldest == { pair \in TrendPairs : IsZero(WindowRates(pair)[1].rate) }

\* the pairs whose summary takes nothing but numbers and a nonzero divisor
Computable ==
    { pair \in TrendPairs :
        /\ IsNumber(WindowRates(pair)[1].rate)
        /\ ~IsZero(WindowRates(pair)[1].rate)
        /\ IsNumber(WindowRates(pair)[Len(WindowRates(pair))].rate) }

\* C12: for a history in which some pair has at least 2 records in the window
\* and its oldest rate is 0, get_currency_trends returns without raising; that
\* pair is reported as stable with 0% change or is left out, and the other
\* pairs' summaries are returned.
C12_ZeroOldestGuarded ==
    (hist_out.op = "get_currency_trends" /\ ZeroOldest # {}) =>
        /\ hist_out.exc = "none"
        /\ \A i \in 1..Len(hist_out.trends) :
               hist_out.trends[i].pair \in ZeroOldest =>
                   Direction(i) = "stable" /\ Reported(i) = 0
        /\ \A pair \in Computable :
               \E i \in 1..Len(hist_out.trends) : hist_out.trends[i].pair = pair

\* ---------------------------------------------------------------------------
\* A session that only appends: one add_conversion a second, onto a log that
\* starts empty or starts from a file longer than the limit
\* ---------------------------------------------------------------------------
MaxAppends == 105

AppendedConversion == Conversion("USD", "EUR", fallback_rates["EUR"], BadTime)

AppendInit ==
    /\ now = StartTime
    /\ history_file \in {JsonFile("missing", <<>>),
                         JsonFile("list", StoredHistory(MAX_HISTORY_ENTRIES + 1))}
    /\ history = load_json_file(history_file)
    /\ hist_out = NoHistCall
    /\ calls = 0
    /\ cache_file = NoFile
    /\ libs_available = [forex |-> FALSE, converter |-> FALSE]
    /\ rates_cache = EmptyDict
    /\ rate_out = NoRateCall
    /\ pc = "append"
    /\ ui_out = NoUi

\* the k-th call comes at StartTime + k
AppendConversion ==
    /\ calls < MaxAppends
    /\ \E write_ok \in BOOLEAN :
        \E r \in {add_conversion(history, history_file, AppendedConversion, now + 1, write_ok)} :
            /\ now' = now + 1
            /\ calls' = calls + 1
            /\ history' = r.history
            /\ history_file' = r.file
            /\ hist_out' = [NoHistCall EXCEPT !.op = "add_conversion"]
            /\ UNCHANGED <<cache_file, libs_available, rates_cache, pc, rate_out, ui_out>>

AppendNext == AppendConversion

SpecAppend == AppendInit /\ [][AppendNext]_vars

\* the record of the call at time t, as the log holds it
Stamped(t) == [AppendedConversion EXCEPT !.timestamp = t]

\* the last n elements of seq, all of it if it is shorter
LastOf(seq, n) == SubSeq(seq, Len(seq) - Min(n, Len(seq)) + 1, Len(seq))

\* what one add_conversion does to the log and to the file
AppendStep ==
    calls' = calls + 1 =>
        /\ history' = LastOf(Append(history, Stamped(now')), MAX_HISTORY_ENTRIES)
        /\ history_file' \in {history_file, JsonFile("list", history')}

\* the positions of the log that hold records appended in this session
Appended == { k \in 1..Len(history) : history[k].timestamp > StartTime }

\* after n calls the log ends with the last min(n, 100) records appended, in
\* the order of the calls; from an empty log these are all it holds
LastAppended ==
    /\ Cardinality(Appended) = Min(calls, MAX_HISTORY_ENTRIES)
    /\ \A k \in Appended : history[k] = Stamped(StartTime + calls - (Len(history) - k))
    /\ calls > 0 => Len(history) <= MAX_HISTORY_ENTRIES
    /\ history_file.kind = "missing" => Len(history) = Min(calls, MAX_HISTORY_ENTRIES)

\* C11: after add_conversion(r) the log is the last 100 elements of the
\* previous log followed by r, in insertion order, and that sequence is what is
\* handed to persistence (the file holds it, or the write failed and the file
\* is as before); so 105 appends to an empty log leave the 6th to the 105th
\* record.
C11_AppendKeepsLast100 == [][AppendStep]_vars /\ []LastAppended

\* C11 witness: 105 records appended to an empty log, the log holding the 6th
\* to the 105th
C11_Witness ==
    /\ history_file.kind = "missing"
    /\ calls = MAX_HISTORY_ENTRIES + 5
    /\ Len(history) = MAX_HISTORY_ENTRIES
    /\ history[1] = Stamped(StartTime + 6)
    /\ history[MAX_HISTORY_ENTRIES] = Stamped(StartTime + MAX_HISTORY_ENTRIES + 5)


\* ---------------------------------------------------------------------------
\* A run of the application: CurrencyConverter() and then run()
\* ---------------------------------------------------------------------------
MaxMenu == 2

Reads(texts) == { Line(s) : s \in texts } \cup {EOFError, KeyboardInterrupt}

CurrencyReads == Reads({"USD", "eur", "", "xyz"})

AmountReads == Reads({"100", "0", "-5", "nan", "abc", ""})

ClearReads == Reads({"y", " Y ", "n", ""})

PauseReads == Reads({""})

AppCacheFiles ==
    { NoFile,
      DictFile(CacheDict(LiveRates, StartTime - 1)),
      DictFile(CacheDict(ZeroRates, StartTime - 1)) }

AppHistoryFiles ==
    { JsonFile("missing", <<>>),
      JsonFile("list", StoredHistory(3)),
      JsonFile("list", <<Conversion("USD", "EUR", FZero, StartTime - 120),
                         Conversion("USD", "EUR", FOne, StartTime - 60)>>),
      JsonFile("list", <<Conversion("USD", "EUR", FOne, StartTime - 120), NotADict>>) }

\* neither library is installed, so neither is ever called
AppLibs == [forex |-> LibAnswer("raises"), converter |-> LibAnswer("raises")]

AppScenarios == { <<Failed("timeout"), Failed("status"), Failed("malformed")>>,
                  <<Answer(LiveRates), Failed("timeout"), Failed("timeout")>> }

Ui(op, outcome) == [NoUi EXCEPT !.op = op, !.outcome = outcome]

\* where run() goes after a menu operation: an interrupt ends it, an exception
\* leads to the handler, anything else to the pause
After(outcome) ==
    IF outcome = "interrupt" THEN "stopped"
    ELSE IF outcome = "raised" THEN "handler"
    ELSE "pause"

Reason(outcome) == IF outcome = "interrupt" THEN "interrupt" ELSE "none"

Init ==
    /\ now = StartTime
    /\ cache_file \in AppCacheFiles
    /\ libs_available = [forex |-> FALSE, converter |-> FALSE]
    /\ rates_cache = load_cache(cache_file, now)
    /\ history_file \in AppHistoryFiles
    /\ history = load_json_file(history_file)
    /\ pc = "menu"
    /\ rate_out = NoRateCall
    /\ hist_out = NoHistCall
    /\ ui_out = NoUi
    /\ calls = 0

\* one reading of the menu prompt that yields the choice
Chosen(choice) ==
    /\ pc = "menu"
    /\ calls < MaxMenu
    /\ calls' = calls + 1
    /\ \E text \in DOMAIN strip : strip[text] = choice

AppTick ==
    \E d \in {MaxElapsed} :
        /\ pc # "stopped"
        /\ now + d <= StartTime + MaxElapsed
        /\ now' = now + d
        /\ UNCHANGED <<cache_file, libs_available, rates_cache, history_file, history,
                       pc, rate_out, hist_out, ui_out, calls>>

\* the menu prompt raises
MenuInputFails ==
    \E read \in {EOFError, KeyboardInterrupt} :
        /\ pc = "menu"
        /\ calls < MaxMenu
        /\ calls' = calls + 1
        /\ pc' = IF read.kind = "KeyboardInterrupt" THEN "stopped" ELSE "handler"
        /\ ui_out' = [Ui("menu_input", IF read.kind = "KeyboardInterrupt"
                                       THEN "interrupt" ELSE "raised")
                        EXCEPT !.reason = IF read.kind = "KeyboardInterrupt"
                                          THEN "interrupt" ELSE "none"]
        /\ UNCHANGED <<now, cache_file, libs_available, rates_cache, history_file,
                       history, rate_out, hist_out>>

\* the lines a prompt can yield if convert_currency gets to it
ReadsIf(reached, reads) == IF reached THEN reads ELSE {NoRead}

Accepted(read) == read.kind = "line" /\ get_currency_input(read.text) # None

Positive(read) ==
    /\ read.kind = "line"
    /\ py_float[read.text].exc = "none"
    /\ ~py_le_zero(py_float[read.text].value)

ConvertCurrency ==
    /\ Chosen("1")
    /\ \E from_in \in CurrencyReads :
      \E to_in \in ReadsIf(Accepted(from_in), CurrencyReads) :
        \E amount_in \in ReadsIf(Accepted(to_in), AmountReads) :
          \E resps \in IF Positive(amount_in) THEN AppScenarios ELSE {<<>>},
                cache_write_ok \in IF Positive(amount_in) THEN BOOLEAN ELSE {FALSE},
                hist_write_ok \in IF Positive(amount_in) THEN BOOLEAN ELSE {FALSE} :
            \E r \in {convert_currency(from_in, to_in, amount_in, history, history_file,
                                       rates_cache, cache_file, libs_available, resps,
                                       AppLibs, now, cache_write_ok, hist_write_ok)} :
                /\ history' = r.history
                /\ history_file' = r.history_file
                /\ cache_file' = r.cache_file
                /\ pc' = After(r.outcome)
                /\ ui_out' = [op |-> "convert_currency", from_in |-> r.from_in,
                              to_in |-> r.to_in, amount_in |-> r.amount_in,
                              outcome |-> r.outcome, lookup |-> r.lookup,
                              reason |-> Reason(r.outcome)]
                /\ UNCHANGED <<now, libs_available, rates_cache, rate_out, hist_out>>

ShowCurrentRates ==
    /\ Chosen("2")
    /\ \E resps \in AppScenarios, write_ok \in BOOLEAN :
        \E r \in {show_current_rates(rates_cache, cache_file, resps, now, write_ok)} :
            /\ cache_file' = r.cache_file
            /\ pc' = After(r.outcome)
            /\ ui_out' = Ui("show_current_rates", r.outcome)
            /\ UNCHANGED <<now, libs_available, rates_cache, history_file, history,
                           rate_out, hist_out>>

ShowConversionHistory ==
    /\ Chosen("3")
    /\ \E clear_in \in ClearReads, write_ok \in BOOLEAN :
        \E r \in {show_conversion_history(history, history_file, clear_in, write_ok)} :
            /\ history' = r.history
            /\ history_file' = r.history_file
            /\ pc' = After(r.outcome)
            /\ ui_out' = [Ui("show_conversion_history", r.outcome)
                            EXCEPT !.reason = Reason(r.outcome)]
            /\ UNCHANGED <<now, cache_file, libs_available, rates_cache, rate_out,
                           hist_out>>

ShowCurrencyTrends ==
    /\ Chosen("4")
    /\ \E r \in {show_currency_trends(history, now)} :
        /\ pc' = After(r.outcome)
        /\ ui_out' = Ui("show_currency_trends", r.outcome)
        /\ UNCHANGED <<now, cache_file, libs_available, rates_cache, history_file,
                       history, rate_out, hist_out>>

ShowAvailableCurrencies ==
    /\ Chosen("5")
    /\ pc' = "pause"
    /\ ui_out' = Ui("show_available_currencies", "done")
    /\ UNCHANGED <<now, cache_file, libs_available, rates_cache, history_file,
                   history, rate_out, hist_out>>

ExitApplication ==
    /\ Chosen("6")
    /\ pc' = "stopped"
    /\ ui_out' = [Ui("exit_application", "done") EXCEPT !.reason = "exit"]
    /\ UNCHANGED <<now, cache_file, libs_available, rates_cache, history_file,
                   history, rate_out, hist_out>>

InvalidChoice ==
    \E choice \in {"7", ""} :
        /\ Chosen(choice)
        /\ pc' = "pause"
        /\ ui_out' = Ui("invalid_choice", "done")
        /\ UNCHANGED <<now, cache_file, libs_available, rates_cache, history_file,
                       history, rate_out, hist_out>>

\* input("\nPress Enter to continue...") at the end of the try block
Pause ==
    \E read \in PauseReads :
        /\ pc = "pause"
        /\ pc' = IF read.kind = "line" THEN "menu"
                 ELSE IF read.kind = "KeyboardInterrupt" THEN "stopped"
                 ELSE "handler"
        /\ ui_out' = [Ui("pause", IF read.kind = "line" THEN "done"
                                  ELSE IF read.kind = "KeyboardInterrupt" THEN "interrupt"
                                  ELSE "raised")
                        EXCEPT !.reason = IF read.kind = "KeyboardInterrupt"
                                          THEN "interrupt" ELSE "none"]
        /\ UNCHANGED <<now, cache_file, libs_available, rates_cache, history_file,
                       history, rate_out, hist_out, calls>>

\* input("Press Enter to continue...") in the except Exception clause: what it
\* raises is raised out of run()
ErrorHandler ==
    \E read \in PauseReads :
        /\ pc = "handler"
        /\ pc' = IF read.kind = "line" THEN "menu" ELSE "stopped"
        /\ ui_out' = [Ui("handler", IF read.kind = "line" THEN "done"
                                    ELSE IF read.kind = "KeyboardInterrupt" THEN "interrupt"
                                    ELSE "raised")
                        EXCEPT !.reason = IF read.kind = "line" THEN "none"
                                          ELSE IF read.kind = "KeyboardInterrupt"
                                          THEN "interrupt"
                                          ELSE "exception"]
        /\ UNCHANGED <<now, cache_file, libs_available, rates_cache, history_file,
                       history, rate_out, hist_out, calls>>

Next ==
    \/ AppTick
    \/ MenuInputFails
    \/ ConvertCurrency
    \/ ShowCurrentRates
    \/ ShowConversionHistory
    \/ ShowCurrencyTrends
    \/ ShowAvailableCurrencies
    \/ ExitApplication
    \/ InvalidChoice
    \/ Pause
    \/ ErrorHandler

Spec == Init /\ [][Next]_vars

\* ---------------------------------------------------------------------------
\* Properties of CurrencyConverter
\* ---------------------------------------------------------------------------
\* an empty or unsupported currency code
InvalidCurrency(read) ==
    read.kind = "line" /\ strip_upper[read.text] \notin SUPPORTED_CURRENCIES

\* the amounts typed that are numbers above zero
PositiveAmounts == {"100", " 2.5 "}

InvalidAmount(read) == read.kind = "line" /\ read.text \notin PositiveAmounts

\* C7: a convert_currency that receives an empty or unsupported currency code,
\* or a non-numeric or non-positive amount, is aborted without effect: no
\* lookup is made, no record is appended, and the history log, the history
\* file and the rate cache stay as they were.
C7_InvalidInputNoEffect ==
    [][(/\ pc = "menu"
        /\ ui_out'.op = "convert_currency"
        /\ \/ InvalidCurrency(ui_out'.from_in)
           \/ InvalidCurrency(ui_out'.to_in)
           \/ InvalidAmount(ui_out'.amount_in))
       => (/\ ui_out'.outcome = "aborted"
           /\ ~ui_out'.lookup
           /\ history' = history
           /\ history_file' = history_file
           /\ rates_cache' = rates_cache
           /\ cache_file' = cache_file)]_vars

\* C8: run() ends only on the exit choice or on an interrupt; an exception
\* raised by a menu operation or by a read of input, the error handler's own
\* prompt included, leads back to the menu.
C8_StopsOnlyOnExitOrInterrupt ==
    pc = "stopped" => ui_out.reason \in {"exit", "interrupt"}
====
